---- MODULE Spec2Model ----
(***************************************************************************)
(* Model of the Analyzer command-line tool (src/main.py,                   *)
(* src/data_fetcher.py, src/exchange_mapping.py).                          *)
(*                                                                         *)
(* Python values are records [t, n, d, s]: t is the Python type name,      *)
(* n/d the numeric value (d > 0; for "int" d = 1), s the text of a str     *)
(* (or "nan" for the float NaN).  A Python call that may raise is a        *)
(* record [exc, msg, val]: exc = "" when it returned val, otherwise the    *)
(* exception class and msg its text.  Display strings are built as real    *)
(* strings, so that "2.5K" is the text the program prints.                 *)
(***************************************************************************)
EXTENDS Integers, Sequences, FiniteSets, TLC

VARIABLES
    call,             \* entry point being run: a function of data_fetcher or "main"
    pc,               \* position in the entry point
    args,             \* arguments of a direct call of a pure function
    ret,              \* [exc, msg, val] of the last function call that returned
    ticker,           \* main: the ticker read from the console
    data,             \* main: local `data` ("DataFrame" or "None")
    info,             \* main: local `info` (vendor response record)
    vendor,           \* the vendor response consumed by the last fetch
    out,              \* lines written to stdout by the last step
    printed,          \* section headers / messages written so far
    vendor_calls,     \* number of fetch functions that called the vendor
    market_name,      \* main: local `market_name`
    uncaught          \* exception class that escaped main ("" if none)

vars == <<call, pc, args, ret, ticker, data, info, vendor, out, printed,
          vendor_calls, market_name, uncaught>>

-----------------------------------------------------------------------------
(* Bounds of the model.                                                    *)

\* numeric inputs are m * 10^e for e in 0..MaxExp
MaxExp == 7
\* a vendor info mapping holds at most MaxFields of the fields read
MaxFields == 1
\* a balance sheet has 0..MaxCols period columns
MaxCols == 2

-----------------------------------------------------------------------------
(* Python values.                                                          *)

None_ == [t |-> "NoneType", n |-> 0, d |-> 1, s |-> ""]
PyInt(k) == [t |-> "int", n |-> k, d |-> 1, s |-> ""]
PyFlt(k, m) == [t |-> "float", n |-> k, d |-> m, s |-> ""]
NaN == [t |-> "float", n |-> 0, d |-> 1, s |-> "nan"]
Str(x) == [t |-> "str", n |-> 0, d |-> 1, s |-> x]
\* the empty list [] and the empty dict {}
List_ == [t |-> "list", n |-> 0, d |-> 1, s |-> ""]
Dict_ == [t |-> "dict", n |-> 0, d |-> 1, s |-> ""]

IsNaN(v) == v.t = "float" /\ v.s = "nan"
\* an int or a float that is a number
IsNumber(v) == v.t \in {"int", "float"} /\ ~IsNaN(v)

Ok(v) == [exc |-> "", msg |-> "", val |-> v]
Raise(e, m) == [exc |-> e, msg |-> m, val |-> None_]

Abs(k) == IF k < 0 THEN -k ELSE k

RECURSIVE Pow10(_)
Pow10(e) == IF e = 0 THEN 1 ELSE 10 * Pow10(e - 1)

Digits == <<"0", "1", "2", "3", "4", "5", "6", "7", "8", "9">>

\* decimal text of a natural number
RECURSIVE NatStr(_)
NatStr(k) == IF k < 10 THEN Digits[k + 1]
             ELSE NatStr(k \div 10) \o Digits[(k % 10) + 1]

\* str(int)
IntStr(k) == IF k < 0 THEN "-" \o NatStr(-k) ELSE NatStr(k)

\* the digits of r/q after the decimal point, r < q, for a terminating expansion
RECURSIVE FracDigits(_, _, _)
FracDigits(r, q, left) ==
    IF r = 0 \/ left = 0 THEN ""
    ELSE Digits[((r * 10) \div q) + 1] \o FracDigits((r * 10) % q, q, left - 1)

\* repr(float) of n/d with a short terminating decimal expansion
FloatStr(v) ==
    IF IsNaN(v) THEN "nan"
    ELSE LET a == Abs(v.n)
             ip == a \div v.d
             r == a % v.d
         IN (IF v.n < 0 THEN "-" ELSE "") \o NatStr(ip) \o "." \o
            (IF r = 0 THEN "0" ELSE FracDigits(r, v.d, 6))

\* str(value), as an f-string renders it
PyStr(v) ==
    CASE v.t = "NoneType" -> "None"
      [] v.t = "int" -> IntStr(v.n)
      [] v.t = "float" -> FloatStr(v)
      [] v.t = "str" -> v.s
      [] v.t = "list" -> "[]"
      [] v.t = "dict" -> "{}"

\* bool(value)
PyBool(v) ==
    CASE v.t = "NoneType" -> FALSE
      [] v.t \in {"int", "float"} -> IsNaN(v) \/ v.n # 0
      [] v.t = "str" -> v.s # ""
      [] v.t \in {"list", "dict"} -> FALSE

\* the numbers whose decimal text float() parses in this model
StrNumbers == {0, 150, 2500}

\* float(value)
PyFloat(v) ==
    CASE v.t \in {"int", "float"} -> Ok(IF IsNaN(v) THEN NaN ELSE PyFlt(v.n, v.d))
      [] v.t = "str" ->
            IF \E k \in StrNumbers : NatStr(k) = v.s
            THEN Ok(PyFlt(CHOOSE k \in StrNumbers : NatStr(k) = v.s, 1))
            ELSE Raise("ValueError",
                       "could not convert string to float: '" \o v.s \o "'")
      [] OTHER -> Raise("TypeError",
                        "float() argument must be a string or a real number, not '"
                        \o v.t \o "'")

-----------------------------------------------------------------------------
(* format_large_numbers                                                    *)

Sentinel == "Dato no disponible"

Billion == 1000000000
Million == 1000000
Thousand == 1000

\* round(a / m) for a >= 0, m > 0, ties to even: what the format
\* specification does to a binary value that holds the quotient exactly
RoundDiv(a, m) ==
    LET q == a \div m
        r == a % m
    IN IF 2 * r > m \/ (2 * r = m /\ q % 2 = 1) THEN q + 1 ELSE q

\* f"{x / scale:.1f}" for x = a/d >= 0
Fixed1(a, d, scale) ==
    LET u == RoundDiv(a, d * (scale \div 10))
    IN NatStr(u \div 10) \o "." \o NatStr(u % 10)

\* f"{x:.2f}" for x = a/d >= 0
Fixed2(a, d) ==
    LET ip == a \div d
        h == RoundDiv((a % d) * 100, d)
        ip2 == IF h = 100 THEN ip + 1 ELSE ip
        h2 == IF h = 100 THEN 0 ELSE h
    IN NatStr(ip2) \o "." \o NatStr(h2 \div 10) \o NatStr(h2 % 10)

\* value >= threshold for value = n/d and an integer threshold
GE(v, threshold) == (v.n \div v.d) >= threshold

\* FormatFloat with the thresholds compared against abs(value)
FormatFloatAbs(v) ==
    LET sign == IF v.n < 0 THEN "-" ELSE ""
        a == PyFlt(Abs(v.n), v.d)
    IN IF IsNaN(v) THEN "nan"
       ELSE IF GE(a, Billion) THEN sign \o Fixed1(a.n, a.d, Billion) \o "B"
       ELSE IF GE(a, Million) THEN sign \o Fixed1(a.n, a.d, Million) \o "M"
       ELSE IF GE(a, Thousand) THEN sign \o Fixed1(a.n, a.d, Thousand) \o "K"
       ELSE sign \o Fixed2(a.n, a.d)

\* the suffix chosen on the signed value, thresholds in descending order
FormatFloat(v) ==
    IF IsNaN(v) THEN "nan"
    ELSE IF GE(v, Billion) THEN Fixed1(v.n, v.d, Billion) \o "B"
    ELSE IF GE(v, Million) THEN Fixed1(v.n, v.d, Million) \o "M"
    ELSE IF GE(v, Thousand) THEN Fixed1(v.n, v.d, Thousand) \o "K"
    ELSE (IF v.n < 0 THEN "-" ELSE "") \o Fixed2(Abs(v.n), v.d)

\* a handler `except ValueError` applied to the outcome of float(value)
CatchValueError(r) ==
    IF r.exc = "" THEN Ok(Str(FormatFloat(r.val)))
    ELSE IF r.exc = "ValueError" THEN Ok(Str(Sentinel))
    ELSE r

format_large_numbers(value) ==
    IF value = None_ THEN Ok(Str(Sentinel))
    ELSE CatchValueError(PyFloat(value))

-----------------------------------------------------------------------------
(* calculate_debt_change                                                   *)

\* this_year_debt - last_year_debt on Python values
PySub(a, b) ==
    IF a.t \in {"int", "float"} /\ b.t \in {"int", "float"}
    THEN IF IsNaN(a) \/ IsNaN(b) THEN Ok(NaN)
         ELSE IF a.t = "int" /\ b.t = "int" THEN Ok(PyInt(a.n - b.n))
         ELSE Ok(PyFlt(a.n * b.d - b.n * a.d, a.d * b.d))
    ELSE Raise("TypeError",
               "unsupported operand type(s) for -: '" \o a.t \o "' and '"
               \o b.t \o "'")

\* abs(value) of a number
PyAbs(v) == IF IsNaN(v) THEN v ELSE [v EXCEPT !.n = Abs(v.n)]

\* the f-string around format_large_numbers(...): str() of what it returned
Described(prefix, r) ==
    IF r.exc = "" THEN Ok(Str(prefix \o PyStr(r.val))) ELSE r

\* the body of the try block
DebtChangeBody(last_year_debt, this_year_debt) ==
    LET sub == PySub(this_year_debt, last_year_debt)
        debt_change == sub.val
    IN IF sub.exc # "" THEN sub
       ELSE IF ~IsNaN(debt_change) /\ debt_change.n > 0
            THEN Described("Aumento de ", format_large_numbers(debt_change))
       ELSE IF ~IsNaN(debt_change) /\ debt_change.n < 0
            THEN Described("Disminución de ",
                           format_large_numbers(PyAbs(debt_change)))
       ELSE Ok(Str("Sin cambio"))

\* CatchCalcError with the handler narrowed to `except ValueError`
CatchCalcValueError(r) ==
    IF r.exc = "" THEN r
    ELSE IF r.exc = "ValueError" THEN Ok(Str("Error en el cálculo: " \o r.msg))
    ELSE r

\* except Exception as e: the error description
CatchCalcError(r) ==
    IF r.exc = "" THEN r ELSE Ok(Str("Error en el cálculo: " \o r.msg))

calculate_debt_change(last_year_debt, this_year_debt) ==
    CatchCalcError(DebtChangeBody(last_year_debt, this_year_debt))

-----------------------------------------------------------------------------
(* fetch_fundamental_data                                                  *)

\* a Python dict is a function from its keys; {} is the empty function
EmptyDict == <<>>

\* the info fields the function reads, and one it does not read
ReadFields == {"dividendYield", "trailingPE", "priceToBook", "returnOnEquity",
               "debtToEquity", "beta", "revenueGrowth", "freeCashflow",
               "totalDebt", "longTermDebt", "operatingIncome",
               "netIncomeToCommon", "earningsQuarterlyGrowth", "earningsGrowth"}
OtherField == "symbol"

\* the labels of the mapping returned, in insertion order
MetricOrder == <<"P/E Ratio", "P/B Ratio", "Dividend Yield", "ROE",
                 "Debt to Equity", "Beta", "Revenue Growth", "Free Cash Flow",
                 "Total Debt", "Long-Term Debt", "Operating Income",
                 "Net Income", "EPS Growth (5Y)", "EPS Growth (Next 5Y)">>
MetricKeys == {MetricOrder[i] : i \in 1..Len(MetricOrder)}

\* label -> info field read for it
FieldOf(label) ==
    CASE label = "P/E Ratio" -> "trailingPE"
      [] label = "P/B Ratio" -> "priceToBook"
      [] label = "Dividend Yield" -> "dividendYield"
      [] label = "ROE" -> "returnOnEquity"
      [] label = "Debt to Equity" -> "debtToEquity"
      [] label = "Beta" -> "beta"
      [] label = "Revenue Growth" -> "revenueGrowth"
      [] label = "Free Cash Flow" -> "freeCashflow"
      [] label = "Total Debt" -> "totalDebt"
      [] label = "Long-Term Debt" -> "longTermDebt"
      [] label = "Operating Income" -> "operatingIncome"
      [] label = "Net Income" -> "netIncomeToCommon"
      [] label = "EPS Growth (5Y)" -> "earningsQuarterlyGrowth"
      [] label = "EPS Growth (Next 5Y)" -> "earningsGrowth"

\* the labels whose value goes through format_large_numbers, in order
FormattedOrder == <<"Free Cash Flow", "Total Debt", "Long-Term Debt",
                    "Operating Income", "Net Income">>
FormattedKeys == {FormattedOrder[i] : i \in 1..Len(FormattedOrder)}

\* safe_get as a plain data.get(field): None for a missing field
safe_get_NoDefault(m, field, default) ==
    IF field \in DOMAIN m THEN m[field] ELSE None_

\* data.get(field, default) if field in data else default
safe_get(m, field, default) ==
    IF field \in DOMAIN m THEN m[field] ELSE default

\* x * k on a str
RECURSIVE Repeat(_, _)
Repeat(x, k) ==
    IF k = 0 THEN ""
    ELSE IF k % 2 = 1 THEN x \o Repeat(x, k - 1)
    ELSE LET half == Repeat(x, k \div 2) IN half \o half

\* dividend_yield * 100
Times100(v) ==
    CASE v.t = "int" -> Ok(PyInt(v.n * 100))
      [] v.t = "float" -> Ok(IF IsNaN(v) THEN v ELSE PyFlt(v.n * 100, v.d))
      [] v.t = "str" -> Ok(Str(Repeat(v.s, 100)))
      [] v.t = "list" -> Ok(v)
      [] OTHER -> Raise("TypeError",
                        "unsupported operand type(s) for *: '" \o v.t
                        \o "' and 'int'")

\* lines 70-72: the local dividend_yield
DividendYield(m) ==
    LET dividend_yield == safe_get(m, "dividendYield", Str(Sentinel))
    IN IF dividend_yield # Str(Sentinel) /\ dividend_yield # None_
       THEN Times100(dividend_yield)
       ELSE Ok(dividend_yield)

\* line 78: the "Dividend Yield" entry
DividendEntry(dividend_yield) ==
    IF dividend_yield # Str(Sentinel)
    THEN Str(PyStr(dividend_yield) \o "%")
    ELSE Str(Sentinel)

\* float(a) / float(b) on floats
PyDiv(a, b) ==
    IF IsNaN(a) \/ IsNaN(b) THEN Ok(NaN)
    ELSE IF b.n = 0 THEN Raise("ZeroDivisionError", "float division by zero")
    ELSE IF b.n > 0 THEN Ok(PyFlt(a.n * b.d, a.d * b.n))
    ELSE Ok(PyFlt(-(a.n * b.d), a.d * (-b.n)))

\* line 98: the condition on the two debt fields
HasDebtChange(m) ==
    /\ PyBool(safe_get(m, "totalDebt", None_))
    /\ PyBool(safe_get(m, "debtToEquity", None_))

\* line 99: format_large_numbers(float(totalDebt) / float(debtToEquity))
DebtChangeEntry(m) ==
    LET a == PyFloat(safe_get(m, "totalDebt", PyInt(0)))
        b == PyFloat(safe_get(m, "debtToEquity", PyInt(1)))
    IN IF a.exc # "" THEN a
       ELSE IF b.exc # "" THEN b
       ELSE LET q == PyDiv(a.val, b.val)
            IN IF q.exc # "" THEN q ELSE format_large_numbers(q.val)

\* the first call of a sequence of calls that raised, or Ok
RECURSIVE FirstRaise(_)
FirstRaise(rs) ==
    IF rs = <<>> THEN Ok(None_)
    ELSE IF Head(rs).exc # "" THEN Head(rs)
    ELSE FirstRaise(Tail(rs))

\* lines 93-99: the nested group
DebtComparisonGroup(m) ==
    [k \in {"Deuda Anterior"} \cup
           (IF HasDebtChange(m) THEN {"Cambio Deuda"} ELSE {}) |->
        IF k = "Deuda Anterior"
        THEN format_large_numbers(safe_get(m, "debtToEquity", Str(Sentinel))).val
        ELSE DebtChangeEntry(m).val]

\* lines 75-101: the mapping built when nothing raised
FundamentalData(m) ==
    [k \in MetricKeys \cup {"Debt Comparison"} |->
        IF k = "Debt Comparison" THEN DebtComparisonGroup(m)
        ELSE IF k = "Dividend Yield" THEN DividendEntry(DividendYield(m).val)
        ELSE IF k \in FormattedKeys
             THEN format_large_numbers(safe_get(m, FieldOf(k), Str(Sentinel))).val
        ELSE safe_get(m, FieldOf(k), Str(Sentinel))]

\* lines 63-103: the body of the try block; resp is what the vendor answers
FundamentalBody(resp) ==
    IF resp.kind = "raise" THEN Raise(resp.exc, resp.msg)
    ELSE IF resp.kind = "None"
         THEN Raise("TypeError", "argument of type 'NoneType' is not iterable")
    ELSE LET m == resp.m
             raised == FirstRaise(
                 <<DividendYield(m)>> \o
                 [i \in 1..Len(FormattedOrder) |->
                     format_large_numbers(
                         safe_get(m, FieldOf(FormattedOrder[i]), Str(Sentinel)))] \o
                 <<format_large_numbers(safe_get(m, "debtToEquity", Str(Sentinel)))>> \o
                 (IF HasDebtChange(m) THEN <<DebtChangeEntry(m)>> ELSE <<>>))
         IN IF raised.exc # "" THEN raised ELSE Ok(FundamentalData(m))

\* what a fetch function hands back: the value returned or the exception
\* raised, the lines it printed, and the exception its handler caught
Returned(v, lines, e) ==
    [exc |-> "", msg |-> "", val |-> v, out |-> lines, caught |-> e]
Propagated(r) ==
    [exc |-> r.exc, msg |-> r.msg, val |-> EmptyDict, out |-> <<>>, caught |-> ""]

\* the local `info` of main: a mapping, or None
NoInfo == [kind |-> "None", m |-> <<>>]
\* return None, None
NonePair == [data |-> "None", info |-> NoInfo]

\* CatchAndLog with the handler narrowed to the vendor's own error
\* (`except ConnectionError`): anything else propagates
CatchOnlyVendorError(r, text, tk, fallback) ==
    IF r.exc = "" THEN Returned(r.val, <<>>, "")
    ELSE IF r.exc = "ConnectionError"
         THEN Returned(fallback, <<text \o " " \o tk \o ": " \o r.msg>>, r.exc)
    ELSE Propagated(r)

\* `except Exception as e: print(f"{text} {ticker}: {e}"); return fallback`
CatchAndLog(r, text, tk, fallback) ==
    IF r.exc = "" THEN Returned(r.val, <<>>, "")
    ELSE Returned(fallback, <<text \o " " \o tk \o ": " \o r.msg>>, r.exc)

fetch_fundamental_data(tk, resp) ==
    CatchAndLog(FundamentalBody(resp),
                "Error al obtener datos fundamentales para", tk, EmptyDict)

-----------------------------------------------------------------------------
(* fetch_debt_comparison                                                   *)

\* A balance sheet is [rows, ncols, cell]: rows the labels of its index,
\* cell[label][i] the value in period column i (1 = most recent).

\* balance_sheet.loc[label] if label in balance_sheet.index else None
RowOf(sheet, label) ==
    IF label \in sheet.rows THEN [found |-> TRUE, cells |-> sheet.cell[label]]
    ELSE [found |-> FALSE, cells |-> <<>>]

\* row.iloc[i] if row is not None else None   (i is 0-based)
ILoc(row, i) ==
    IF ~row.found THEN Ok(None_)
    ELSE IF i + 1 \in DOMAIN row.cells THEN Ok(row.cells[i + 1])
    ELSE Raise("IndexError", "single positional indexer is out-of-bounds")

\* lines 138-141 and 143-146: the three entries of one pair, when both
\* period values are truthy
PairEntries(last, this) ==
    IF PyBool(last) /\ PyBool(this)
    THEN <<format_large_numbers(last), format_large_numbers(this),
           calculate_debt_change(last, this)>>
    ELSE <<>>

\* the mapping holding the entries of the pairs that were emitted
PairDict(entries, keys) ==
    [k \in {keys[i] : i \in 1..Len(entries)} |->
        entries[CHOOSE i \in 1..Len(entries) : keys[i] = k].val]

TotalKeys == <<"Total Debt Last Year", "Total Debt This Year", "Debt Change">>
LongTermKeys == <<"Long Term Debt Last Year", "Long Term Debt This Year",
                  "Long Term Debt Change">>

\* d1 updated with d2 (disjoint keys)
Merge(d1, d2) ==
    [k \in DOMAIN d1 \cup DOMAIN d2 |-> IF k \in DOMAIN d1 THEN d1[k] ELSE d2[k]]

\* lines 120-148: the body of the try block
DebtComparisonBody(resp) ==
    IF resp.kind = "raise" THEN Raise(resp.exc, resp.msg)
    ELSE IF resp.kind = "None"
         THEN Raise("AttributeError", "'NoneType' object has no attribute 'index'")
    ELSE LET total_debt == RowOf(resp.sheet, "Total Debt")
             long_term_debt == RowOf(resp.sheet, "Long Term Debt")
             debt_last_year == ILoc(total_debt, 1)
             debt_this_year == ILoc(total_debt, 0)
             long_term_debt_last_year == ILoc(long_term_debt, 1)
             long_term_debt_this_year == ILoc(long_term_debt, 0)
             indexed == FirstRaise(<<debt_last_year, debt_this_year,
                                     long_term_debt_last_year,
                                     long_term_debt_this_year>>)
         IN IF indexed.exc # "" THEN indexed
            ELSE LET total == PairEntries(debt_last_year.val, debt_this_year.val)
                     long == PairEntries(long_term_debt_last_year.val,
                                         long_term_debt_this_year.val)
                     raised == FirstRaise(total \o long)
                 IN IF raised.exc # "" THEN raised
                    ELSE Ok(Merge(PairDict(total, TotalKeys),
                                  PairDict(long, LongTermKeys)))

fetch_debt_comparison(tk, resp) ==
    CatchAndLog(DebtComparisonBody(resp),
                "Error al obtener la comparación de deuda para", tk, EmptyDict)

-----------------------------------------------------------------------------
(* fetch_ticker_data                                                       *)

\* lines 15-18: the body of the try block
TickerBody(resp) ==
    IF resp.kind = "raise" THEN Raise(resp.exc, resp.msg)
    ELSE Ok([data |-> resp.data, info |-> [kind |-> resp.info_kind, m |-> resp.m]])

\* lines 19-21: except Exception as e: print(...); return None, None
\* fetch_ticker_data without its try/except
fetch_ticker_data_unguarded(tk, resp) ==
    IF TickerBody(resp).exc = "" THEN Returned(TickerBody(resp).val, <<>>, "")
    ELSE [Propagated(TickerBody(resp)) EXCEPT !.val = NonePair]

fetch_ticker_data(tk, resp) ==
    CatchAndLog(TickerBody(resp), "Error al obtener datos para", tk, NonePair)

-----------------------------------------------------------------------------
(* EXCHANGE_MAPPING                                                        *)

ExchangeKeys == {"NMS", "NYQ", "ASE", "MCE", "TOR", "LSE", "JPX", "OTC"}

EXCHANGE_MAPPING ==
    [k \in ExchangeKeys |->
        CASE k = "NMS" -> "NASDAQ"
          [] k = "NYQ" -> "NYSE"
          [] k = "ASE" -> "AMEX"
          [] k = "MCE" -> "Mercado continuo"
          [] k = "TOR" -> "Toronto Stock Exchange"
          [] k = "LSE" -> "London Stock Exchange"
          [] k = "JPX" -> "Tokyo Stock Exchange"
          [] k = "OTC" -> "Over the Counter"]

\* MarketName as EXCHANGE_MAPPING.get(market_code): None for an unknown code
MarketNameNoFallback(market_code) ==
    IF market_code.t = "str" /\ market_code.s \in DOMAIN EXCHANGE_MAPPING
    THEN Str(EXCHANGE_MAPPING[market_code.s])
    ELSE None_

\* EXCHANGE_MAPPING.get(market_code, market_code)
MarketName(market_code) ==
    IF market_code.t = "str" /\ market_code.s \in DOMAIN EXCHANGE_MAPPING
    THEN Str(EXCHANGE_MAPPING[market_code.s])
    ELSE market_code

-----------------------------------------------------------------------------
(* Inputs.                                                                 *)

Mantissas == {1, 12, 15}
Boundaries == {999, 1000, 1250, 2500, 999999, 1000000, 999999999,
               1000000000, 1500000000}

\* the whole numbers given to the pure functions
Numbers ==
    {0} \cup Boundaries \cup {-b : b \in Boundaries}
        \cup {sg * m * Pow10(e) : sg \in {-1, 1}, m \in Mantissas, e \in 0..MaxExp}

\* f"{x / scale:.1f}" rounds a tie: x / scale = a/(d*scale) lies halfway
\* between two multiples of 0.1
Tie1(a, d, scale) ==
    2 * (a % (d * (scale \div 10))) = d * (scale \div 10)

\* f"{x:.2f}" rounds a tie
Tie2(a, d) == 2 * (((a % d) * 100) % d) = d

\* The numbers whose text is decided by the quotient alone: where the
\* rounding falls on a tie, the tie is a binary fraction (a multiple of
\* 1/4, of 1/8), which the double holds exactly.
Decided(v) ==
    \/ IsNaN(v)
    \/ IF GE(v, Billion)
       THEN Tie1(v.n, v.d, Billion) => v.n % (v.d * (Billion \div 4)) = 0
       ELSE IF GE(v, Million)
       THEN Tie1(v.n, v.d, Million) => v.n % (v.d * (Million \div 4)) = 0
       ELSE IF GE(v, Thousand)
       THEN Tie1(v.n, v.d, Thousand) => v.n % (v.d * (Thousand \div 4)) = 0
       ELSE Tie2(Abs(v.n), v.d) => (8 * (Abs(v.n) % v.d)) % v.d = 0

NonNumeric == {None_, Str("abc"), Str(""), Str(Sentinel), Str("2500"),
               List_, Dict_}

FormatInputs ==
    {PyInt(v) : v \in Numbers} \cup {PyFlt(v, 1) : v \in Numbers}
        \cup {PyFlt(1, 2), PyFlt(-1, 2), PyFlt(1, 8), PyFlt(1999, 2), NaN}
        \cup NonNumeric

DebtNumbers == {v \in Numbers : Abs(v) <= Billion}

DebtInputs ==
    {PyFlt(v, 1) : v \in DebtNumbers}
        \cup {PyInt(100), PyInt(150), PyFlt(1, 2), NaN, None_, Str("abc"), List_}

\* the pairs given to calculate_debt_change
DebtPairs ==
    {p \in DebtInputs \X DebtInputs :
        LET diff == PySub(p[2], p[1])
        IN diff.exc = "" => Decided(PyAbs(diff.val))}

Tickers == {"AAPL", "SAN.MC"}

\* what the vendor answers to a fetch
Resp(kind, m, sheet, data_, info_kind) ==
    [kind |-> kind,
     exc |-> IF kind = "raise" THEN "ConnectionError" ELSE "",
     msg |-> IF kind = "raise" THEN "vendor unreachable" ELSE "",
     m |-> m, sheet |-> sheet, data |-> data_, info_kind |-> info_kind]

NoSheet == [rows |-> {}, ncols |-> 0, cell |-> <<>>]
NoResp == Resp("", <<>>, NoSheet, "None", "None")

InfoValues == {None_, PyInt(0), PyInt(2500), PyFlt(1, 2), Str("abc"), Str("0"),
               List_, Dict_}

\* the key sets of the vendor info mappings: at most MaxFields of the
\* fields, and the two fields line 98 reads together
InfoKeySets ==
    {T \in SUBSET (ReadFields \cup {OtherField}) : Cardinality(T) <= MaxFields}
        \cup {{"totalDebt", "debtToEquity"}}

\* the vendor raised, or answered None
Failures ==
    {Resp("raise", <<>>, NoSheet, "None", "None"),
     Resp("None", <<>>, NoSheet, "None", "None")}

CellValues == {None_, NaN, PyFlt(0, 1), PyFlt(100, 1), PyFlt(150, 1), Str("abc")}
DebtRows == {"Total Debt", "Long Term Debt"}

\* the info keys main reads
MainTextKeys == {"symbol", "longName", "sector", "industry", "country", "currency"}
ExchangeValues == {Str(k) : k \in ExchangeKeys} \cup {Str("XXX"), Str("nms"), None_}

MainInfos ==
    {[k \in T \cup E |-> IF k = "exchange" THEN x ELSE Str("x")] :
        T \in SUBSET MainTextKeys, E \in {{}, {"exchange"}}, x \in ExchangeValues}

TickerResponses ==
    {Resp("raise", <<>>, NoSheet, "None", "None")}
        \cup {Resp("ok", m, NoSheet, "DataFrame", "dict") : m \in MainInfos}
        \cup {Resp("ok", <<>>, NoSheet, "DataFrame", "None"),
              Resp("ok", <<>>, NoSheet, "None", "dict")}

-----------------------------------------------------------------------------
(* The state machine: a direct call of a pure function, or a run of main.  *)

Init ==
    /\ \/ call = "main" /\ pc = "start" /\ args = <<>>
       \/ call = "format_large_numbers" /\ pc = "call"
            /\ args \in {<<v>> : v \in {x \in FormatInputs :
                                          IsNumber(x) => Decided(x)}}
       \/ call = "calculate_debt_change" /\ pc = "call" /\ args \in DebtPairs
    /\ ret = Ok(None_)
    /\ ticker = ""
    /\ data = "None"
    /\ info = NoInfo
    /\ vendor = NoResp
    /\ out = <<>>
    /\ printed = {}
    /\ vendor_calls = 0
    /\ market_name = None_
    /\ uncaught = ""

\* a direct call format_large_numbers(value)
CallFormat ==
    /\ call = "format_large_numbers" /\ pc = "call"
    /\ ret' = format_large_numbers(args[1])
    /\ pc' = IF ret'.exc = "" THEN "returned" ELSE "raised"
    /\ UNCHANGED <<call, args, ticker, data, info, vendor, out, printed,
                   vendor_calls, market_name, uncaught>>

\* a direct call calculate_debt_change(last_year_debt, this_year_debt)
CallDebtChange ==
    /\ call = "calculate_debt_change" /\ pc = "call"
    /\ ret' = calculate_debt_change(args[1], args[2])
    /\ pc' = IF ret'.exc = "" THEN "returned" ELSE "raised"
    /\ UNCHANGED <<call, args, ticker, data, info, vendor, out, printed,
                   vendor_calls, market_name, uncaught>>

\* for key, value in mapping.items(): print(f"{key}: {value}")
RECURSIVE Items(_, _, _)
Items(m, order, fallback) ==
    IF order = <<>> THEN <<>>
    ELSE (IF Head(order) \in DOMAIN m
          THEN <<Head(order) \o ": " \o
                 (IF Head(order) \in DOMAIN fallback THEN fallback[Head(order)]
                  ELSE PyStr(m[Head(order)]))>>
          ELSE <<>>) \o Items(m, Tail(order), fallback)

\* repr of the nested group: its values are str
GroupRepr(g) ==
    "{'Deuda Anterior': '" \o g["Deuda Anterior"].s \o "'" \o
    (IF "Cambio Deuda" \in DOMAIN g
     THEN ", 'Cambio Deuda': '" \o g["Cambio Deuda"].s \o "'" ELSE "") \o "}"

\* info.get(key, 'N/D')
InfoGet(m, key) == IF key \in DOMAIN m THEN m[key] ELSE Str("N/D")

\* lines 5-9: read the ticker and the period, announce the fetch
MainStart ==
    /\ call = "main" /\ pc = "start"
    /\ \E tk \in Tickers :
          /\ ticker' = tk
          /\ out' = <<"=== Análisis de Tickers ===",
                      "Obteniendo datos para " \o tk \o "...">>
    /\ pc' = "fetch_ticker"
    /\ UNCHANGED <<call, args, ret, data, info, vendor, printed, vendor_calls,
                   market_name, uncaught>>

\* line 10: data, info = fetch_ticker_data(ticker, period)
MainFetchTicker ==
    /\ call = "main" /\ pc = "fetch_ticker"
    /\ \E resp \in TickerResponses :
          LET r == fetch_ticker_data(ticker, resp)
          IN /\ vendor' = resp
             /\ ret' = r
             /\ out' = r.out
             /\ data' = r.val.data
             /\ info' = r.val.info
             /\ uncaught' = r.exc
             /\ pc' = IF r.exc = "" THEN "branch" ELSE "crashed"
    /\ vendor_calls' = vendor_calls + 1
    /\ UNCHANGED <<call, args, ticker, printed, market_name>>

\* lines 12-25: the ticker section, with the exchange lookup
MainShowInfo ==
    /\ call = "main" /\ pc = "branch"
    /\ data # "None" /\ info.kind # "None"
    /\ LET market_code == InfoGet(info.m, "exchange")
       IN /\ market_name' = MarketName(market_code)
          /\ out' = <<"=== Información del Ticker ===",
                      "Símbolo: $" \o PyStr(InfoGet(info.m, "symbol")),
                      "Nombre: " \o PyStr(InfoGet(info.m, "longName")),
                      "Mercado: " \o PyStr(market_name'),
                      "Sector: " \o PyStr(InfoGet(info.m, "sector")),
                      "Industria: " \o PyStr(InfoGet(info.m, "industry")),
                      "País: " \o PyStr(InfoGet(info.m, "country")),
                      "Divisa: " \o PyStr(InfoGet(info.m, "currency"))>>
    /\ printed' = printed \cup {"ticker"}
    /\ pc' = "history"
    /\ UNCHANGED <<call, args, ret, ticker, data, info, vendor, vendor_calls,
                   uncaught>>

\* lines 44-45: no data, the "could not retrieve" message
MainNoData ==
    /\ call = "main" /\ pc = "branch"
    /\ ~(data # "None" /\ info.kind # "None")
    /\ out' = <<"No se pudieron obtener datos para el ticker especificado. "
                \o "Verifica el símbolo e intenta de nuevo.">>
    /\ printed' = printed \cup {"no data"}
    /\ pc' = "done"
    /\ UNCHANGED <<call, args, ret, ticker, data, info, vendor, vendor_calls,
                   market_name, uncaught>>

\* lines 28-29: the tail of the price history; info and market_name are
\* not read after this point and are dropped, with the record of the fetch
MainShowHistory ==
    /\ call = "main" /\ pc = "history"
    /\ out' = <<"=== Últimos Datos Históricos ===", "data.tail()">>
    /\ printed' = printed \cup {"history"}
    /\ info' = NoInfo
    /\ market_name' = None_
    /\ vendor' = NoResp
    /\ ret' = Ok(None_)
    /\ pc' = "fundamental"
    /\ UNCHANGED <<call, args, ticker, data, vendor_calls, uncaught>>

\* lines 32-35: the fundamental section, the vendor answering resp
Fundamental(resp) ==
    LET r == fetch_fundamental_data(ticker, resp)
    IN /\ vendor' = resp
       /\ ret' = r
       /\ uncaught' = r.exc
       /\ pc' = IF r.exc = "" THEN "debt_header" ELSE "crashed"
       /\ out' = <<"=== Análisis Fundamental ===">> \o r.out \o
                 (IF r.exc # "" THEN <<>>
                  ELSE Items(r.val, MetricOrder \o <<"Debt Comparison">>,
                             IF "Debt Comparison" \in DOMAIN r.val
                             THEN [k \in {"Debt Comparison"} |->
                                      GroupRepr(r.val[k])]
                             ELSE <<>>))

MainFundamental ==
    /\ call = "main" /\ pc = "fundamental"
    /\ \/ \E resp \in Failures : Fundamental(resp)
       \/ \E keys \in InfoKeySets : \E m \in [keys -> InfoValues] :
             Fundamental(Resp("dict", m, NoSheet, "None", "dict"))
    /\ printed' = printed \cup {"fundamental"}
    /\ vendor_calls' = vendor_calls + 1
    /\ UNCHANGED <<call, args, ticker, data, info, market_name>>

\* line 38: the header of the debt section; fundamental_data is not read
\* after this point and is dropped, with the record of the fetch
MainDebtHeader ==
    /\ call = "main" /\ pc = "debt_header"
    /\ out' = <<"=== Comparación de Deuda ===">>
    /\ printed' = printed \cup {"debt"}
    /\ vendor' = NoResp
    /\ ret' = Ok(None_)
    /\ pc' = "debt"
    /\ UNCHANGED <<call, args, ticker, data, info, vendor_calls, market_name,
                   uncaught>>

\* lines 39-42: the debt comparison and its entries, the vendor answering resp
Debt(resp) ==
    LET r == fetch_debt_comparison(ticker, resp)
    IN /\ vendor' = resp
       /\ ret' = r
       /\ uncaught' = r.exc
       /\ pc' = IF r.exc = "" THEN "done" ELSE "crashed"
       /\ out' = r.out \o
                 (IF r.exc # "" THEN <<>>
                  ELSE Items(r.val, TotalKeys \o LongTermKeys, <<>>))

MainDebt ==
    /\ call = "main" /\ pc = "debt"
    /\ \/ \E resp \in Failures : Debt(resp)
       \/ \E rows \in SUBSET DebtRows : \E ncols \in 0..MaxCols :
          \E cell \in [rows -> [1..ncols -> CellValues]] :
             Debt(Resp("frame", <<>>,
                       [rows |-> rows, ncols |-> ncols, cell |-> cell],
                       "None", "None"))
    /\ vendor_calls' = vendor_calls + 1
    /\ UNCHANGED <<call, args, ticker, data, info, printed, market_name>>

Next ==
    \/ CallFormat
    \/ CallDebtChange
    \/ MainStart
    \/ MainFetchTicker
    \/ MainShowInfo
    \/ MainNoData
    \/ MainShowHistory
    \/ MainFundamental
    \/ MainDebtHeader
    \/ MainDebt

Spec == Init /\ [][Next]_vars

-----------------------------------------------------------------------------
(* Properties.                                                             *)

\* the states in which a fetch of main has just handed back `ret`
AfterFundamental == call = "main" /\ pc = "debt_header"
AfterDebt == call = "main" /\ pc = "done" /\ "debt" \in printed
AfterFormat == call = "format_large_numbers" /\ pc # "call"
AfterDebtChange == call = "calculate_debt_change" /\ pc # "call"

\* the line is among those the last step printed
Shown(line) == \E i \in 1..Len(out) : out[i] = line

\* C1: fetch_fundamental_data and fetch_debt_comparison never raise.  Main
\* never sees an exception from them; when the vendor raised, answered
\* None, or a formatted field holds a list or a dict, and whenever the
\* handler caught anything, the function printed one message and returned
\* the empty mapping; when nothing was caught it printed nothing.
C1_FetchNeverRaises ==
    call = "main" =>
        /\ uncaught = "" /\ pc # "crashed"
        /\ (AfterFundamental \/ AfterDebt) =>
              /\ ret.exc = ""
              /\ vendor.kind \in {"raise", "None"} => ret.caught # ""
              /\ (AfterFundamental /\ vendor.kind = "dict"
                    /\ \E f \in {"freeCashflow", "totalDebt", "longTermDebt",
                                 "operatingIncome", "netIncomeToCommon",
                                 "debtToEquity"} :
                          f \in DOMAIN vendor.m /\ vendor.m[f].t \in {"list", "dict"})
                 => ret.caught = "TypeError"
              /\ ret.caught # "" =>
                    /\ ret.val = EmptyDict
                    /\ Len(ret.out) = 1 /\ Shown(ret.out[1])
              /\ ret.caught = "" => ret.out = <<>>

C1_Witness ==
    /\ AfterFundamental
    /\ vendor.kind = "dict"
    /\ "freeCashflow" \in DOMAIN vendor.m /\ vendor.m["freeCashflow"] = List_
    /\ ret.exc = "" /\ ret.caught = "TypeError" /\ ret.val = EmptyDict
    /\ Shown("Error al obtener datos fundamentales para AAPL: float() argument "
             \o "must be a string or a real number, not 'list'")

\* C2: format_large_numbers returns the sentinel for None and for every
\* input that fails numeric coercion (unparseable string, list, mapping),
\* and never raises.
C2_SentinelForEveryNonNumeric ==
    AfterFormat =>
        /\ pc = "returned" /\ ret.exc = ""
        /\ (args[1].t \in {"NoneType", "list", "dict"}
              \/ args[1] \in {Str("abc"), Str(""), Str(Sentinel)})
           => ret.val = Str(Sentinel)

\* C3: for a number v, format_large_numbers chooses the suffix on the
\* signed value, thresholds in descending order: v >= 1e9 gives v/1e9 to
\* one decimal and "B", else v >= 1e6 gives "M", else v >= 1e3 gives "K",
\* otherwise v to two decimals with no suffix, negative values included.
C3_SuffixBySignedThreshold ==
    (AfterFormat /\ IsNumber(args[1])) =>
        LET n == args[1].n
            d == args[1].d
            whole == n \div d      \* floor(v): v >= t iff floor(v) >= t
            text == ret.val.s
        IN /\ pc = "returned" /\ ret.val.t = "str"
           /\ whole >= 1000000000 => text = Fixed1(n, d, 1000000000) \o "B"
           /\ (whole < 1000000000 /\ whole >= 1000000)
                 => text = Fixed1(n, d, 1000000) \o "M"
           /\ (whole < 1000000 /\ whole >= 1000)
                 => text = Fixed1(n, d, 1000) \o "K"
           /\ (whole < 1000 /\ n >= 0) => text = Fixed2(n, d)
           /\ n < 0 => text = "-" \o Fixed2(-n, d)
           /\ (n = 2500 /\ d = 1) => text = "2.5K"
           /\ (n = 1500000000 /\ d = 1) => text = "1.5B"
           /\ (n = 1500000 /\ d = 1) => text = "1.5M"
           /\ (n = 999 /\ d = 1) => text = "999.00"
           /\ (n = 999999 /\ d = 1) => text = "1000.0K"
           /\ (n = -2500 /\ d = 1) => text = "-2500.00"
           /\ (n = -1500000000 /\ d = 1) => text = "-1500000000.00"

C3_Witness ==
    /\ AfterFormat /\ pc = "returned"
    /\ args[1] = PyFlt(-2500, 1)
    /\ ret.val = Str("-2500.00")

\* C4: for every pair of numeric values (int or float), calculate_debt_change
\* gives the increase descriptor when current - prior > 0, the decrease
\* descriptor with the absolute delta when current - prior < 0, and the
\* no-change descriptor exactly when current = prior.
C4_DirectionOfEveryNumericPair ==
    (AfterDebtChange /\ args[1].t \in {"int", "float"}
                     /\ args[2].t \in {"int", "float"}) =>
        LET prior == args[1]
            current == args[2]
            equal == ~IsNaN(prior) /\ ~IsNaN(current)
                     /\ current.n * prior.d = prior.n * current.d
            delta == PyFlt(current.n * prior.d - prior.n * current.d,
                           prior.d * current.d)
        IN /\ pc = "returned"
           /\ (ret.val = Str("Sin cambio")) <=> equal
           /\ (IsNumber(prior) /\ IsNumber(current) /\ delta.n > 0)
                 => ret.val = Str("Aumento de " \o FormatFloat(delta))
           /\ (IsNumber(prior) /\ IsNumber(current) /\ delta.n < 0)
                 => ret.val = Str("Disminución de " \o FormatFloat(PyAbs(delta)))

\* C5: on a vendor info mapping with none of the fields read,
\* fetch_fundamental_data returns a non-empty mapping whose 14 metric
\* entries all equal the sentinel, and whose "Debt Comparison" group holds
\* the prior-debt entry equal to the sentinel and no change entry.
C5_AllSentinelWhenNoField ==
    (AfterFundamental /\ vendor.kind = "dict"
                      /\ DOMAIN vendor.m \cap ReadFields = {}) =>
        /\ ret.caught = ""
        /\ ret.val # EmptyDict
        /\ DOMAIN ret.val = MetricKeys \cup {"Debt Comparison"}
        /\ Cardinality(MetricKeys) = 14
        /\ \A k \in MetricKeys : ret.val[k] = Str("Dato no disponible")
        /\ DOMAIN ret.val["Debt Comparison"] = {"Deuda Anterior"}
        /\ ret.val["Debt Comparison"]["Deuda Anterior"] = Str("Dato no disponible")

C5_Witness ==
    /\ AfterFundamental /\ vendor.kind = "dict"
    /\ DOMAIN vendor.m = {OtherField}
    /\ ret.val["P/E Ratio"] = Str("Dato no disponible")
    /\ ret.val["Free Cash Flow"] = Str("Dato no disponible")
    /\ Shown("Debt Comparison: {'Deuda Anterior': 'Dato no disponible'}")

\* a period value of the row is there: the row is in the index, the
\* column exists, and the cell is not None
Present(sheet, row, col) ==
    row \in sheet.rows /\ col <= sheet.ncols /\ sheet.cell[row][col] # None_
NonZero(sheet, row, col) ==
    ~(IsNumber(sheet.cell[row][col]) /\ sheet.cell[row][col].n = 0)
BothThere(sheet, row) ==
    /\ Present(sheet, row, 1) /\ NonZero(sheet, row, 1)
    /\ Present(sheet, row, 2) /\ NonZero(sheet, row, 2)

\* C6: in fetch_debt_comparison each pair is handled on its own: its three
\* entries are emitted iff both its period values are present and
\* non-zero; a pair whose row or period value is absent is omitted without
\* the error path, so the result has 0, 3 or 6 entries.
C6_PairsIndependent ==
    (AfterDebt /\ vendor.kind = "frame") =>
        LET keys(seq) == {seq[i] : i \in 1..3}
        IN /\ ret.caught = ""
           /\ keys(TotalKeys) \subseteq DOMAIN ret.val
                 <=> BothThere(vendor.sheet, "Total Debt")
           /\ keys(LongTermKeys) \subseteq DOMAIN ret.val
                 <=> BothThere(vendor.sheet, "Long Term Debt")
           /\ Cardinality(DOMAIN ret.val) \in {0, 3, 6}

\* C7: whatever the vendor calls do, main ends without an uncaught
\* exception, having printed either the four data sections (three vendor
\* calls) or the "could not retrieve" message; when the first fetch fails
\* it prints the message and makes no further vendor call.  Until it has
\* ended it can always take its next step.
C7_MainCompletes ==
    call = "main" =>
        /\ uncaught = ""
        /\ pc # "done" => ENABLED Next
        /\ pc = "done" =>
              \/ printed = {"no data"} /\ vendor_calls = 1
              \/ printed = {"ticker", "history", "fundamental", "debt"}
                   /\ vendor_calls = 3
        /\ (pc \in {"branch", "done"} /\ vendor_calls = 1 /\ vendor.kind = "raise")
              => data = "None" /\ info = NoInfo
        /\ (pc = "branch" /\ ret.caught # "")
              => ENABLED MainNoData /\ ~ENABLED MainShowInfo
        /\ (pc = "done" /\ data = "None")
              => printed = {"no data"} /\ vendor_calls = 1

C7_Witness ==
    /\ call = "main" /\ pc = "done"
    /\ vendor.kind = "raise" /\ ret.caught = "ConnectionError"
    /\ printed = {"no data"} /\ vendor_calls = 1
    /\ uncaught = ""

\* C8: calculate_debt_change never raises and returns a string; when the
\* subtraction fails (an operand that is no number) the string is the
\* error description with the text of the exception.
C8_DebtChangeNeverRaises ==
    AfterDebtChange =>
        /\ pc = "returned" /\ ret.exc = "" /\ ret.val.t = "str"
        /\ (args[1].t \notin {"int", "float"} \/ args[2].t \notin {"int", "float"})
              => ret.val.s = "Error en el cálculo: unsupported operand type(s) for -: '"
                             \o args[2].t \o "' and '" \o args[1].t \o "'"

C8_Witness ==
    /\ AfterDebtChange /\ pc = "returned"
    /\ args = <<Str("abc"), PyFlt(100, 1)>>
    /\ ret.val = Str("Error en el cálculo: unsupported operand type(s) for -: "
                     \o "'float' and 'str'")

\* C9: the market name shown is the mapped name when the exchange code is
\* one of the 8 table keys and the code unchanged for any other string.
C9_ExchangeLookupTotal ==
    (call = "main" /\ pc = "history") =>
        LET code == IF "exchange" \in DOMAIN info.m THEN info.m["exchange"]
                    ELSE Str("N/D")
        IN /\ code.t = "str" =>
                 /\ market_name.t = "str"
                 /\ code.s = "NMS" => market_name.s = "NASDAQ"
                 /\ code.s = "NYQ" => market_name.s = "NYSE"
                 /\ code.s = "ASE" => market_name.s = "AMEX"
                 /\ code.s = "MCE" => market_name.s = "Mercado continuo"
                 /\ code.s = "TOR" => market_name.s = "Toronto Stock Exchange"
                 /\ code.s = "LSE" => market_name.s = "London Stock Exchange"
                 /\ code.s = "JPX" => market_name.s = "Tokyo Stock Exchange"
                 /\ code.s = "OTC" => market_name.s = "Over the Counter"
                 /\ code.s \notin {"NMS", "NYQ", "ASE", "MCE", "TOR", "LSE",
                                   "JPX", "OTC"} => market_name = code
                 /\ out[4] = "Mercado: " \o market_name.s
           /\ Cardinality(DOMAIN EXCHANGE_MAPPING) = 8

C9_Witness ==
    /\ call = "main" /\ pc = "history"
    /\ "exchange" \in DOMAIN info.m /\ info.m["exchange"] = Str("XXX")
    /\ market_name = Str("XXX")
    /\ out[4] = "Mercado: XXX"

\* C10: in every mapping fetch_fundamental_data returns, "Dividend Yield"
\* is the sentinel when dividendYield is absent or null, and the number
\* times 100 with "%" when it is a number.
C10_DividendYieldSentinelOrPercent ==
    (AfterFundamental /\ vendor.kind = "dict" /\ ret.val # EmptyDict) =>
        LET m == vendor.m
            entry == ret.val["Dividend Yield"]
        IN /\ ("dividendYield" \notin DOMAIN m \/ m["dividendYield"] = None_)
                 => entry = Str("Dato no disponible")
           /\ ("dividendYield" \in DOMAIN m /\ m["dividendYield"].t = "int")
                 => entry = Str(IntStr(m["dividendYield"].n * 100) \o "%")

====
